---- MODULE Spec2Model ----
(***************************************************************************)
(* Model of src/src/telegram_notifier_bot.py: the topic registry           *)
(* (TopicDatabase on one SQLite table), the chat commands that drive it    *)
(* (NotifierBot), and the webhook handler that looks a topic up,           *)
(* normalises the posted body and sends it to the messaging backend.       *)
(*                                                                         *)
(* Strings are sequences of code points, byte strings are sequences of     *)
(* numbers in 0..255.  The program runs on one asyncio event loop and      *)
(* every database call is synchronous, so the code between two awaits is   *)
(* one atomic action.                                                      *)
(***************************************************************************)
EXTENDS Integers, Sequences, FiniteSets, TLC

\* ------------------------------------------------------------------ bounds
MaxUser == 2      \* user ids are 1..MaxUser
MaxChat == 2      \* chat ids are 1..MaxChat
MaxTime == 1      \* CURRENT_TIMESTAMP runs over 0..MaxTime (one unit = 1 s)
MaxCallers == 3   \* concurrent add_topic callers of SpecAdd
MaxReq == 1       \* webhook requests in flight in SpecGateway

Users == 1..MaxUser
Chats == 1..MaxChat
Callers == 1..MaxCallers
Reqs == 1..MaxReq

\* ------------------------------------------------------- character helpers
\* Code points of the characters the model names.
HYPHEN == 45
UNDERSCORE == 95
SPACE == 32

\* str.isalnum() for one character, on the Latin-1 range.
IsAlnumChar(c) ==
    \/ c \in 48..57
    \/ c \in 65..90
    \/ c \in 97..122
    \/ c \in {170, 178, 179, 181, 185, 186, 188, 189, 190}
    \/ c \in 192..214
    \/ c \in 216..246
    \/ c \in 248..255

\* str.replace(old, "") for a one-character old.
RemoveChar(s, c) == SelectSeq(s, LAMBDA x : x # c)

\* " ".join(args)
RECURSIVE JoinArgs(_)
JoinArgs(args) ==
    IF Len(args) = 0 THEN <<>>
    ELSE IF Len(args) = 1 THEN args[1]
    ELSE args[1] \o <<SPACE>> \o JoinArgs(Tail(args))

\* Faulty variant of ValidTopicName: a name of hyphens and underscores alone passes.
ValidTopicNameLax(topic_name) ==
    \A i \in 1..Len(topic_name) :
        IsAlnumChar(topic_name[i]) \/ topic_name[i] \in {HYPHEN, UNDERSCORE}

\* topic_name.replace("-", "").replace("_", "").isalnum()
ValidTopicName(topic_name) ==
    LET stripped == RemoveChar(RemoveChar(topic_name, HYPHEN), UNDERSCORE)
    IN  /\ Len(stripped) > 0
        /\ \A i \in 1..Len(stripped) : IsAlnumChar(stripped[i])

\* ------------------------------------------------------------ TopicDatabase
\* One row of the table topics.
Row(topic_name, user_id, chat_id, created_at) ==
    [topic_name |-> topic_name, user_id |-> user_id,
     chat_id |-> chat_id, created_at |-> created_at]

\* The table after init_database on a fresh file.
init_database == {}

\* Faulty variants of add_topic: a key on (user_id, topic_name); INSERT OR REPLACE.
add_topic_per_owner(rows, topic_name, user_id, chat_id, ts) ==
    IF \E r \in rows : r.topic_name = topic_name /\ r.user_id = user_id
    THEN [ok |-> FALSE, rows |-> rows]
    ELSE [ok |-> TRUE,
          rows |-> rows \cup {Row(topic_name, user_id, chat_id, ts)}]

add_topic_replace(rows, topic_name, user_id, chat_id, ts) ==
    [ok |-> TRUE,
     rows |-> {r \in rows : r.topic_name # topic_name}
                 \cup {Row(topic_name, user_id, chat_id, ts)}]

\* INSERT INTO topics: the PRIMARY KEY on topic_name (BINARY collation)
\* rejects a second row of the same name with IntegrityError.
add_topic(rows, topic_name, user_id, chat_id, ts) ==
    IF \E r \in rows : r.topic_name = topic_name
    THEN [ok |-> FALSE, rows |-> rows]
    ELSE [ok |-> TRUE,
          rows |-> rows \cup {Row(topic_name, user_id, chat_id, ts)}]

\* SELECT ... WHERE topic_name = ?; None is the empty set, a hit a singleton.
get_topic(rows, topic_name) == {r \in rows : r.topic_name = topic_name}

\* Sequences that list every element of S once.
RECURSIVE Orderings(_)
Orderings(S) ==
    IF S = {} THEN {<<>>}
    ELSE UNION {{<<x>> \o s : s \in Orderings(S \ {x})} : x \in S}

\* SELECT ... WHERE user_id = ? ORDER BY created_at DESC: the result sets
\* SQLite may return (rows of equal created_at come in any order).
get_user_topics(rows, user_id) ==
    {s \in Orderings({r \in rows : r.user_id = user_id}) :
        \A i \in 1..(Len(s) - 1) : s[i].created_at >= s[i + 1].created_at}

\* Faulty variants of delete_topic: a name-only DELETE; a DELETE that reports the
\* wrong row count.
delete_topic_any_owner(rows, user_id, topic_name) ==
    [ok |-> \E r \in rows : r.topic_name = topic_name,
     rows |-> {r \in rows : r.topic_name # topic_name}]

delete_topic_all_of_owner(rows, user_id, topic_name) ==
    [ok |-> \E r \in rows : r.user_id = user_id /\ r.topic_name = topic_name,
     rows |-> IF \E r \in rows :
                    r.user_id = user_id /\ r.topic_name = topic_name
              THEN {r \in rows : r.user_id # user_id}
              ELSE rows]

\* DELETE FROM topics WHERE user_id = ? AND topic_name = ?; rowcount > 0.
delete_topic(rows, user_id, topic_name) ==
    [ok |-> \E r \in rows : r.user_id = user_id /\ r.topic_name = topic_name,
     rows |-> {r \in rows :
                  ~(r.user_id = user_id /\ r.topic_name = topic_name)}]

\* ------------------------------------------------------------ bytes to text
REPLACEMENT == 65533      \* U+FFFD, what errors='replace' puts for bad bytes

\* Whether raw[i] exists and lies in lo..hi.
ByteIn(raw, i, lo, hi) == i <= Len(raw) /\ raw[i] >= lo /\ raw[i] <= hi

\* The range the second byte of a sequence led by b must lie in.
SecondLo(b) == IF b = 224 THEN 160 ELSE IF b = 240 THEN 144 ELSE 128
SecondHi(b) == IF b = 237 THEN 159 ELSE IF b = 244 THEN 143 ELSE 191

\* raw_body.decode('utf-8', errors='replace') from byte i on: each maximal
\* ill-formed run of a sequence becomes one U+FFFD.
RECURSIVE utf8_decode_from(_, _)
utf8_decode_from(raw, i) ==
    IF i > Len(raw) THEN <<>>
    ELSE LET b == raw[i] IN
    IF b < 128 THEN <<b>> \o utf8_decode_from(raw, i + 1)
    ELSE IF b \in 194..223 THEN
        IF ByteIn(raw, i + 1, 128, 191)
        THEN <<(b - 192) * 64 + (raw[i + 1] - 128)>>
                 \o utf8_decode_from(raw, i + 2)
        ELSE <<REPLACEMENT>> \o utf8_decode_from(raw, i + 1)
    ELSE IF b \in 224..239 THEN
        IF ~ByteIn(raw, i + 1, SecondLo(b), SecondHi(b))
        THEN <<REPLACEMENT>> \o utf8_decode_from(raw, i + 1)
        ELSE IF ~ByteIn(raw, i + 2, 128, 191)
        THEN <<REPLACEMENT>> \o utf8_decode_from(raw, i + 2)
        ELSE <<(b - 224) * 4096 + (raw[i + 1] - 128) * 64 + (raw[i + 2] - 128)>>
                 \o utf8_decode_from(raw, i + 3)
    ELSE IF b \in 240..244 THEN
        IF ~ByteIn(raw, i + 1, SecondLo(b), SecondHi(b))
        THEN <<REPLACEMENT>> \o utf8_decode_from(raw, i + 1)
        ELSE IF ~ByteIn(raw, i + 2, 128, 191)
        THEN <<REPLACEMENT>> \o utf8_decode_from(raw, i + 2)
        ELSE IF ~ByteIn(raw, i + 3, 128, 191)
        THEN <<REPLACEMENT>> \o utf8_decode_from(raw, i + 3)
        ELSE <<(b - 240) * 262144 + (raw[i + 1] - 128) * 4096
                  + (raw[i + 2] - 128) * 64 + (raw[i + 3] - 128)>>
                 \o utf8_decode_from(raw, i + 4)
    ELSE <<REPLACEMENT>> \o utf8_decode_from(raw, i + 1)

\* Faulty variant of utf8_decode: bytes taken as code points (latin-1).
utf8_decode_latin1(raw) == raw

utf8_decode(raw) == utf8_decode_from(raw, 1)

\* Faulty variant of clean_raw_body: the bytes are left as they are.
clean_raw_body_keep(raw) == raw

\* ''.join(chr(b) if 32 <= b <= 126 or b in [9, 10, 13] else ' ' for b in ...)
clean_raw_body(raw) ==
    [i \in 1..Len(raw) |->
        IF (32 <= raw[i] /\ raw[i] <= 126) \/ raw[i] \in {9, 10, 13}
        THEN raw[i] ELSE SPACE]

\* ------------------------------------------------------------ Python values
\* A decoded value: t is its type; n the number (1/0 for a bool); s the text
\* of a str; items the elements of a list or the values of a dict; keys the
\* keys of a dict, in insertion order.
PyVal(t, n, s, items, keys) ==
    [t |-> t, n |-> n, s |-> s, items |-> items, keys |-> keys]
PyStr(s) == PyVal("str", 0, s, <<>>, <<>>)
PyInt(n) == PyVal("int", n, <<>>, <<>>, <<>>)
PyBool(b) == PyVal("bool", IF b THEN 1 ELSE 0, <<>>, <<>>, <<>>)
PyNone == PyVal("none", 0, <<>>, <<>>, <<>>)
PyList(items) == PyVal("list", 0, <<>>, items, <<>>)
PyDict(keys, items) == PyVal("dict", 0, <<>>, items, keys)

\* bool(value), as "if not message" takes it.
Truthy(v) ==
    CASE v.t = "str" -> Len(v.s) > 0
      [] v.t = "int" -> v.n # 0
      [] v.t = "bool" -> v.n = 1
      [] v.t = "none" -> FALSE
      [] OTHER -> Len(v.items) > 0

\* dict[key] = value
DictPut(d, k, v) ==
    IF \E p \in 1..Len(d.keys) : d.keys[p] = k
    THEN LET p == CHOOSE q \in 1..Len(d.keys) : d.keys[q] = k
         IN  PyDict(d.keys, [d.items EXCEPT ![p] = v])
    ELSE PyDict(Append(d.keys, k), Append(d.items, v))

\* ---------------------------------------------------------------- json.loads
\* The decoder on texts without a fraction or exponent part and without the
\* literals NaN and Infinity (the input alphabets hold no '.', 'e', 'E',
\* 'N', 'I' of their own).
Parsed(val, pos) == [ok |-> TRUE, val |-> val, pos |-> pos]
ParseFail == [ok |-> FALSE, val |-> PyNone, pos |-> 0]

QUOTE == 34
BACKSLASH == 92

IsWs(c) == c \in {32, 9, 10, 13}

RECURSIVE SkipWs(_, _)
SkipWs(s, i) == IF i <= Len(s) /\ IsWs(s[i]) THEN SkipWs(s, i + 1) ELSE i

At(s, i, c) == i <= Len(s) /\ s[i] = c

HexVal(c) ==
    IF c \in 48..57 THEN c - 48
    ELSE IF c \in 97..102 THEN c - 87
    ELSE IF c \in 65..70 THEN c - 55
    ELSE -1

\* The value of the four hex digits at s[i..i+3], or -1.
Hex4At(s, i) ==
    IF i + 3 <= Len(s) /\ \A k \in 0..3 : HexVal(s[i + k]) >= 0
    THEN HexVal(s[i]) * 4096 + HexVal(s[i + 1]) * 256
             + HexVal(s[i + 2]) * 16 + HexVal(s[i + 3])
    ELSE -1

\* The character a one-letter escape stands for, or -1.
SimpleEscape(c) ==
    CASE c = 34 -> 34
      [] c = 92 -> 92
      [] c = 47 -> 47
      [] c = 98 -> 8
      [] c = 102 -> 12
      [] c = 110 -> 10
      [] c = 114 -> 13
      [] c = 116 -> 9
      [] OTHER -> -1

\* scanstring from s[i], the character after the opening quote (strict:
\* a raw control character ends the parse).
RECURSIVE ScanString(_, _, _)
ScanString(s, i, acc) ==
    IF i > Len(s) THEN ParseFail
    ELSE IF s[i] = QUOTE THEN Parsed(PyStr(acc), i + 1)
    ELSE IF s[i] < 32 THEN ParseFail
    ELSE IF s[i] # BACKSLASH THEN ScanString(s, i + 1, Append(acc, s[i]))
    ELSE IF i + 1 > Len(s) THEN ParseFail
    ELSE IF s[i + 1] # 117 THEN
        IF SimpleEscape(s[i + 1]) < 0 THEN ParseFail
        ELSE ScanString(s, i + 2, Append(acc, SimpleEscape(s[i + 1])))
    ELSE LET hi == Hex4At(s, i + 2)
             lo == IF At(s, i + 6, BACKSLASH) /\ At(s, i + 7, 117)
                   THEN Hex4At(s, i + 8) ELSE -1
         IN  IF hi < 0 THEN ParseFail
             ELSE IF hi \in 55296..56319 /\ lo \in 56320..57343
             THEN ScanString(s, i + 12,
                      Append(acc, 65536 + (hi - 55296) * 1024 + (lo - 56320)))
             ELSE ScanString(s, i + 6, Append(acc, hi))

IsDigit(c) == c \in 48..57

RECURSIVE DigitsEnd(_, _)
DigitsEnd(s, i) == IF i <= Len(s) /\ IsDigit(s[i]) THEN DigitsEnd(s, i + 1) ELSE i

RECURSIVE DigitsValue(_, _, _, _)
DigitsValue(s, i, j, acc) ==
    IF i >= j THEN acc ELSE DigitsValue(s, i + 1, j, acc * 10 + (s[i] - 48))

\* NUMBER_RE at s[i]: -?(0|[1-9][0-9]*), the integer part.
ScanNumber(s, i) ==
    LET neg == At(s, i, HYPHEN)
        d == IF neg THEN i + 1 ELSE i
        e == IF At(s, d, 48) THEN d + 1 ELSE DigitsEnd(s, d)
    IN  IF e = d THEN ParseFail
        ELSE Parsed(PyInt((IF neg THEN -1 ELSE 1) * DigitsValue(s, d, e, 0)), e)

\* Whether the text word starts at s[i].
StartsWith(s, i, word) ==
    /\ i + Len(word) - 1 <= Len(s)
    /\ \A k \in 1..Len(word) : s[i + k - 1] = word[k]

LitNull == <<110, 117, 108, 108>>
LitTrue == <<116, 114, 117, 101>>
LitFalse == <<102, 97, 108, 115, 101>>

RECURSIVE ParseValue(_, _), ArrayItems(_, _, _), ObjectItems(_, _, _)

\* scan_once at s[i]
ParseValue(s, i) ==
    IF i > Len(s) THEN ParseFail
    ELSE IF s[i] = QUOTE THEN ScanString(s, i + 1, <<>>)
    ELSE IF s[i] = 123 THEN
        LET j == SkipWs(s, i + 1)
        IN  IF At(s, j, 125) THEN Parsed(PyDict(<<>>, <<>>), j + 1)
            ELSE IF At(s, j, QUOTE)
            THEN ObjectItems(s, j + 1, PyDict(<<>>, <<>>))
            ELSE ParseFail
    ELSE IF s[i] = 91 THEN
        LET j == SkipWs(s, i + 1)
        IN  IF At(s, j, 93) THEN Parsed(PyList(<<>>), j + 1)
            ELSE ArrayItems(s, j, <<>>)
    ELSE IF StartsWith(s, i, LitNull) THEN Parsed(PyNone, i + 4)
    ELSE IF StartsWith(s, i, LitTrue) THEN Parsed(PyBool(TRUE), i + 4)
    ELSE IF StartsWith(s, i, LitFalse) THEN Parsed(PyBool(FALSE), i + 5)
    ELSE ScanNumber(s, i)

\* JSONArray from the first element at s[i]
ArrayItems(s, i, acc) ==
    LET v == ParseValue(s, i)
        j == SkipWs(s, v.pos)
    IN  IF ~v.ok THEN ParseFail
        ELSE IF At(s, j, 93) THEN Parsed(PyList(Append(acc, v.val)), j + 1)
        ELSE IF At(s, j, 44)
        THEN ArrayItems(s, SkipWs(s, j + 1), Append(acc, v.val))
        ELSE ParseFail

\* JSONObject from s[i], the character after the opening quote of a key
ObjectItems(s, i, d) ==
    LET k == ScanString(s, i, <<>>)
        c == SkipWs(s, k.pos)
        v == ParseValue(s, SkipWs(s, c + 1))
        j == SkipWs(s, v.pos)
        n == SkipWs(s, j + 1)
    IN  IF ~k.ok \/ ~At(s, c, 58) THEN ParseFail
        ELSE IF ~v.ok THEN ParseFail
        ELSE IF At(s, j, 125) THEN Parsed(DictPut(d, k.val.s, v.val), j + 1)
        ELSE IF At(s, j, 44) /\ At(s, n, QUOTE)
        THEN ObjectItems(s, n + 1, DictPut(d, k.val.s, v.val))
        ELSE ParseFail

\* json.loads(s) for a str s: ok is FALSE where it raises JSONDecodeError.
json_loads(s) ==
    LET v == ParseValue(s, SkipWs(s, 1))
    IN  IF At(s, 1, 65279) THEN ParseFail
        ELSE IF v.ok /\ SkipWs(s, v.pos) = Len(s) + 1 THEN v
        ELSE ParseFail

\* ---------------------------------------------------------------- json.dumps
HexDigit(d) == IF d < 10 THEN 48 + d ELSE 87 + d

\* '\\u{0:04x}'.format(n)
EscapeU(n) ==
    <<BACKSLASH, 117, HexDigit(n \div 4096), HexDigit((n \div 256) % 16),
      HexDigit((n \div 16) % 16), HexDigit(n % 16)>>

\* ESCAPE_ASCII: what json.dumps (ensure_ascii) writes for one character.
EscapeJsonChar(c) ==
    CASE c = 34 -> <<BACKSLASH, 34>>
      [] c = 92 -> <<BACKSLASH, 92>>
      [] c = 10 -> <<BACKSLASH, 110>>
      [] c = 13 -> <<BACKSLASH, 114>>
      [] c = 9 -> <<BACKSLASH, 116>>
      [] c = 12 -> <<BACKSLASH, 102>>
      [] c = 8 -> <<BACKSLASH, 98>>
      [] c \in 32..126 /\ c \notin {34, 92} -> <<c>>
      [] c > 65535 -> EscapeU(55296 + ((c - 65536) \div 1024))
                          \o EscapeU(56320 + ((c - 65536) % 1024))
      [] OTHER -> EscapeU(c)

RECURSIVE FlatMap(_, _)
FlatMap(F(_), s) ==
    IF Len(s) = 0 THEN <<>> ELSE F(Head(s)) \o FlatMap(F, Tail(s))

DumpsStr(s) == <<QUOTE>> \o FlatMap(EscapeJsonChar, s) \o <<QUOTE>>

RECURSIVE NatToStr(_)
NatToStr(n) ==
    IF n < 10 THEN <<48 + n>> ELSE NatToStr(n \div 10) \o <<48 + (n % 10)>>

IntToStr(n) == IF n < 0 THEN <<HYPHEN>> \o NatToStr(-n) ELSE NatToStr(n)

NEWLINE == 10

Indent(level) == [i \in 1..(2 * level) |-> SPACE]

RECURSIVE json_dumps_at(_, _), DumpItems(_, _, _)

\* The elements of list or dict v from the i-th on, one per line.
DumpItems(v, i, level) ==
    Indent(level)
        \o (IF v.t = "dict" THEN DumpsStr(v.keys[i]) \o <<58, SPACE>> ELSE <<>>)
        \o json_dumps_at(v.items[i], level)
        \o (IF i < Len(v.items)
            THEN <<44, NEWLINE>> \o DumpItems(v, i + 1, level)
            ELSE <<>>)

\* json.dumps(v, indent=2), v nested level deep.
json_dumps_at(v, level) ==
    CASE v.t = "str" -> DumpsStr(v.s)
      [] v.t = "int" -> IntToStr(v.n)
      [] v.t = "bool" -> IF v.n = 1 THEN LitTrue ELSE LitFalse
      [] v.t = "none" -> LitNull
      [] OTHER ->
           LET open == IF v.t = "dict" THEN 123 ELSE 91
               close == IF v.t = "dict" THEN 125 ELSE 93
           IN  IF Len(v.items) = 0 THEN <<open, close>>
               ELSE <<open, NEWLINE>> \o DumpItems(v, 1, level + 1)
                        \o <<NEWLINE>> \o Indent(level) \o <<close>>

\* Faulty variant of json_dumps: ensure_ascii escaping left out.
json_dumps_raw_strings(v) ==
    IF v.t = "str" THEN <<QUOTE>> \o v.s \o <<QUOTE>> ELSE json_dumps_at(v, 0)

json_dumps(v) == json_dumps_at(v, 0)

\* ------------------------------------------------------------------ str(data)
APOSTROPHE == 39

\* repr of one character of a str quoted with quote (printable: Latin-1 by
\* its table, above it everything but the surrogates).
ReprChar(c, quote) ==
    CASE c = quote \/ c = 92 -> <<BACKSLASH, c>>
      [] c = 9 -> <<BACKSLASH, 116>>
      [] c = 10 -> <<BACKSLASH, 110>>
      [] c = 13 -> <<BACKSLASH, 114>>
      [] (c < 32 \/ c \in 127..160 \/ c = 173) /\ c \notin {9, 10, 13} ->
           <<BACKSLASH, 120, HexDigit(c \div 16), HexDigit(c % 16)>>
      [] c \in 55296..57343 -> EscapeU(c)
      [] OTHER -> <<c>>

ReprStr(s) ==
    LET has(c) == \E i \in 1..Len(s) : s[i] = c
        quote == IF has(APOSTROPHE) /\ ~has(QUOTE) THEN QUOTE ELSE APOSTROPHE
        one(c) == ReprChar(c, quote)
    IN  <<quote>> \o FlatMap(one, s) \o <<quote>>

LitPyNone == <<78, 111, 110, 101>>
LitPyTrue == <<84, 114, 117, 101>>
LitPyFalse == <<70, 97, 108, 115, 101>>

RECURSIVE py_repr(_), ReprItems(_, _)

ReprItems(v, i) ==
    (IF v.t = "dict" THEN ReprStr(v.keys[i]) \o <<58, SPACE>> ELSE <<>>)
        \o py_repr(v.items[i])
        \o (IF i < Len(v.items) THEN <<44, SPACE>> \o ReprItems(v, i + 1)
            ELSE <<>>)

\* str(v) of a decoded value
py_repr(v) ==
    CASE v.t = "str" -> ReprStr(v.s)
      [] v.t = "int" -> IntToStr(v.n)
      [] v.t = "bool" -> IF v.n = 1 THEN LitPyTrue ELSE LitPyFalse
      [] v.t = "none" -> LitPyNone
      [] OTHER ->
           LET open == IF v.t = "dict" THEN 123 ELSE 91
               close == IF v.t = "dict" THEN 125 ELSE 93
           IN  <<open>> \o (IF Len(v.items) = 0 THEN <<>> ELSE ReprItems(v, 1))
                   \o <<close>>

\* --------------------------------------------- webhook_handler: the message
JSON_TYPE == "application/json"
TEXT_TYPE == "text/plain"
ContentTypes == {JSON_TYPE, TEXT_TYPE}

KeyMessage == <<109, 101, 115, 115, 97, 103, 101>>

\* data.get('message', str(data)): AttributeError unless data is a dict.
data_get_message(data) ==
    IF data.t # "dict" THEN [fault |-> TRUE, message |-> PyNone]
    ELSE IF \E p \in 1..Len(data.keys) : data.keys[p] = KeyMessage
    THEN [fault |-> FALSE,
          message |-> data.items[CHOOSE p \in 1..Len(data.keys) :
                                     data.keys[p] = KeyMessage]]
    ELSE [fault |-> FALSE, message |-> PyStr(py_repr(data))]

\* Faulty variant of extract_message: a body that is no JSON faults.
extract_message_strict(raw_body, content_type) ==
    IF content_type = JSON_TYPE
    THEN LET r == json_loads(clean_raw_body(raw_body))
         IN  IF r.ok THEN data_get_message(r.val)
             ELSE [fault |-> TRUE, message |-> PyNone]
    ELSE [fault |-> FALSE, message |-> PyStr(utf8_decode(raw_body))]

\* Lines 265-283: the message of a request body; fault is an exception that
\* leaves the block.
extract_message(raw_body, content_type) ==
    IF content_type = JSON_TYPE
    THEN LET r == json_loads(clean_raw_body(raw_body))
         IN  IF r.ok THEN data_get_message(r.val)
             ELSE [fault |-> FALSE, message |-> PyStr(utf8_decode(raw_body))]
    ELSE [fault |-> FALSE, message |-> PyStr(utf8_decode(raw_body))]

\* str.replace(c, '\\' + c)
RECURSIVE EscapeChar(_, _)
EscapeChar(s, c) ==
    IF Len(s) = 0 THEN <<>>
    ELSE (IF Head(s) = c THEN <<BACKSLASH, c>> ELSE <<Head(s)>>)
             \o EscapeChar(Tail(s), c)

\* The chain of five replace calls of line 314.
escape_markdown(s) ==
    EscapeChar(EscapeChar(EscapeChar(EscapeChar(EscapeChar(s,
        UNDERSCORE), 42), 91), 93), 96)

KeepChar(c) == c >= 32 \/ c \in {10, 13, 9}

\* Faulty variant of clean_message: nothing is removed.
clean_message_keep_all(chars) == chars

\* ''.join(char for char in message if ord(char) >= 32 or char in '\n\r\t')
clean_message(chars) == SelectSeq(chars, KeepChar)

Fence == <<96, 96, 96>>
FenceOpen == Fence \o <<106, 115, 111, 110, NEWLINE>>
FenceClose == <<NEWLINE>> \o Fence

Text(s) == [fault |-> FALSE, text |-> s]
Fault == [fault |-> TRUE, text |-> <<>>]

\* What iterating message yields when every element passes ord(): the
\* characters of a str, the one-character str elements of a list, the
\* one-character keys of a dict.  ok is FALSE where ord() raises TypeError.
IterChars(message) ==
    CASE message.t = "str" -> [ok |-> TRUE, chars |-> message.s]
      [] message.t = "list" ->
           IF \A i \in 1..Len(message.items) :
                  message.items[i].t = "str" /\ Len(message.items[i].s) = 1
           THEN [ok |-> TRUE,
                 chars |-> [i \in 1..Len(message.items) |-> message.items[i].s[1]]]
           ELSE [ok |-> FALSE, chars |-> <<>>]
      [] message.t = "dict" ->
           IF \A i \in 1..Len(message.keys) : Len(message.keys[i]) = 1
           THEN [ok |-> TRUE,
                 chars |-> [i \in 1..Len(message.keys) |-> message.keys[i][1]]]
           ELSE [ok |-> FALSE, chars |-> <<>>]
      [] OTHER -> [ok |-> FALSE, chars |-> <<>>]

\* Lines 309-314, the except branch.
format_as_text(message) ==
    LET it == IterChars(message)
    IN  IF it.ok THEN Text(escape_markdown(clean_message(it.chars)))
        ELSE Fault

\* Lines 300-314: the outcomes of formatting a truthy message.  message[:100]
\* on a dict raises TypeError up to Python 3.11 (caught) and KeyError from
\* 3.12 on (not caught): both outcomes are given.
format_message(message) ==
    CASE message.t = "str" ->
           LET r == json_loads(message.s)
           IN  IF r.ok
               THEN {Text(FenceOpen \o json_dumps(r.val) \o FenceClose)}
               ELSE {format_as_text(message)}
      [] message.t = "dict" -> {format_as_text(message), Fault}
      [] OTHER -> {format_as_text(message)}

\* Faulty variant of no_message: only None counts as no message.
no_message_none_only(message) == message.t = "none"

\* Line 285: if not message
no_message(message) == ~Truthy(message)

\* Lines 265-314 as one function of the body and the content type: the
\* outcomes "fault" (an exception reaches line 336), "empty" (line 286) and
\* "text" (formatted_message).
Outcome(kind, text) == [kind |-> kind, text |-> text]

normalize(raw_body, content_type) ==
    LET m == extract_message(raw_body, content_type)
    IN  IF m.fault THEN {Outcome("fault", <<>>)}
        ELSE IF no_message(m.message) THEN {Outcome("empty", <<>>)}
        ELSE {IF f.fault THEN Outcome("fault", <<>>) ELSE Outcome("text", f.text) :
                 f \in format_message(m.message)}

\* ------------------------------------------------------------------- state
VARIABLES
    topics,   \* the rows of table topics (the global db)
    now,      \* SQLite's CURRENT_TIMESTAMP, in seconds
    lastOp,   \* the last chat command handled: its inputs, the database call
              \* it made, the table before the call, and what it answered
    calls,    \* SpecAdd: per concurrent caller, its add_topic call and result
    reqs,     \* SpecGateway: per webhook request, where webhook_handler stands
              \* and what it has read, sent and answered
    norm      \* SpecNorm: a body and content type, and what lines 265-314
              \* make of them

vars == <<topics, now, lastOp, calls, reqs, norm>>

\* Names and argument lists the commands are given.
NameA == <<97>>
NameUpperA == <<65>>
NameHyphen == <<HYPHEN>>

StoreArgs == {<<>>, <<NameA>>, <<NameUpperA>>, <<NameA, NameA>>, <<NameHyphen>>}

NoOp ==
    [cmd |-> "none", called |-> "none", topic_name |-> <<>>, user_id |-> 0,
     chat_id |-> 0, ok |-> FALSE, before |-> {}, reply |-> "none",
     listing |-> <<>>]

NoCall == [pc |-> "pending", op |-> "none", topic_name |-> <<>>, user_id |-> 0,
           chat_id |-> 0, ret |-> FALSE]

\* A request that has not arrived: resp is the backend's HTTP status, status
\* the status of the handler's own response, 0 where there is none yet.
NoRequest ==
    [pc |-> "idle", topic_name |-> <<>>, content_type |-> "", raw_body |-> <<>>,
     chat_id |-> 0, fault |-> "none", escaped |-> FALSE, sends |-> 0,
     sent_to |-> 0, text |-> <<>>, resp |-> 0, status |-> 0]

\* fed, again_kind and again_text record a second pass of lines 285-314, on
\* a message made of the first pass's formatted_message.
NoNorm == [pc |-> "none", raw_body |-> <<>>, content_type |-> "",
           kind |-> "none", text |-> <<>>,
           fed |-> "none", again_kind |-> "none", again_text |-> <<>>]

Init ==
    /\ topics = init_database
    /\ now = 0
    /\ lastOp = NoOp
    /\ calls = [c \in Callers |-> NoCall]
    /\ reqs = [r \in Reqs |-> NoRequest]
    /\ norm = NoNorm

\* ------------------------------------------------------------ chat commands
\* /register <topic_name>: the table after the command and what it did.
register_result(rows, ts, user_id, chat_id, args) ==
    LET topic_name == JoinArgs(args)
        res == add_topic(rows, topic_name, user_id, chat_id, ts)
        op == [NoOp EXCEPT !.cmd = "register", !.user_id = user_id,
                           !.chat_id = chat_id, !.before = rows]
    IN  IF Len(args) = 0
        THEN [rows |-> rows, op |-> [op EXCEPT !.reply = "usage"]]
        ELSE IF ~ValidTopicName(topic_name)
        THEN [rows |-> rows,
              op |-> [op EXCEPT !.topic_name = topic_name, !.reply = "invalid"]]
        ELSE [rows |-> res.rows,
              op |-> [op EXCEPT !.topic_name = topic_name,
                                !.called = "add", !.ok = res.ok,
                                !.reply = IF res.ok THEN "registered"
                                          ELSE "taken"]]

register_command(user_id, chat_id, args) ==
    LET r == register_result(topics, now, user_id, chat_id, args)
    IN  /\ topics' = r.rows
        /\ lastOp' = r.op
        /\ UNCHANGED <<now, calls, reqs, norm>>

\* /unregister <topic_name>: the table after the command and what it did.
unregister_result(rows, user_id, args) ==
    LET topic_name == JoinArgs(args)
        res == delete_topic(rows, user_id, topic_name)
        op == [NoOp EXCEPT !.cmd = "unregister", !.user_id = user_id,
                           !.before = rows]
    IN  IF Len(args) = 0
        THEN [rows |-> rows, op |-> [op EXCEPT !.reply = "usage"]]
        ELSE [rows |-> res.rows,
              op |-> [op EXCEPT !.topic_name = topic_name,
                                !.called = "delete", !.ok = res.ok,
                                !.reply = IF res.ok THEN "unregistered"
                                          ELSE "notfound"]]

unregister_command(user_id, args) ==
    LET r == unregister_result(topics, user_id, args)
    IN  /\ topics' = r.rows
        /\ lastOp' = r.op
        /\ UNCHANGED <<now, calls, reqs, norm>>

\* /list
list_topics_command(user_id) ==
    /\ \E user_topics \in get_user_topics(topics, user_id) :
          lastOp' = [NoOp EXCEPT !.cmd = "list", !.user_id = user_id,
                                 !.called = "list", !.before = topics,
                                 !.listing = user_topics,
                                 !.reply = IF Len(user_topics) = 0
                                           THEN "empty" ELSE "list"]
    /\ UNCHANGED <<topics, now, calls, reqs, norm>>

\* One second passes.
Tick ==
    /\ now < MaxTime
    /\ now' = now + 1
    /\ UNCHANGED <<topics, lastOp, calls, reqs, norm>>

Next ==
    \/ \E u \in Users, c \in Chats, args \in StoreArgs :
          register_command(u, c, args)
    \/ \E u \in Users, args \in StoreArgs : unregister_command(u, args)
    \/ \E u \in Users : list_topics_command(u)
    \/ Tick

Spec == Init /\ [][Next]_vars

\* ------------------------------------------- concurrent callers of add_topic
\* One caller's db.add_topic(topic_name, user_id, chat_id): a single INSERT,
\* committed or rejected as a whole.
AddCall(c, topic_name, user_id, chat_id) ==
    LET res == add_topic(topics, topic_name, user_id, chat_id, now)
    IN  /\ calls[c].pc = "pending"
        /\ topics' = res.rows
        /\ calls' = [calls EXCEPT ![c] =
                        [pc |-> "done", op |-> "add",
                         topic_name |-> topic_name,
                         user_id |-> user_id, chat_id |-> chat_id,
                         ret |-> res.ok]]
        /\ UNCHANGED <<now, lastOp, reqs, norm>>

NextAdd ==
    \E c \in Callers, n \in {NameA, NameUpperA}, u \in Users, d \in Chats :
        AddCall(c, n, u, d)

SpecAdd == Init /\ [][NextAdd]_vars

\* ------------------------------------------- store calls one after another
\* calls[c] is the c-th call made on the store, so calls is the sequence of
\* add_topic and delete_topic calls so far.  A private chat's chat_id is the
\* user's id.
InTurn(c) ==
    /\ calls[c].pc = "pending"
    /\ \A b \in Callers : b < c => calls[b].pc = "done"
    /\ lastOp = NoOp

AddInTurn(c, topic_name, user_id) ==
    /\ InTurn(c)
    /\ AddCall(c, topic_name, user_id, user_id)

DeleteInTurn(c, topic_name, user_id) ==
    LET res == delete_topic(topics, user_id, topic_name)
    IN  /\ InTurn(c)
        /\ topics' = res.rows
        /\ calls' = [calls EXCEPT ![c] =
                        [pc |-> "done", op |-> "delete",
                         topic_name |-> topic_name,
                         user_id |-> user_id, chat_id |-> 0,
                         ret |-> res.ok]]
        /\ UNCHANGED <<now, lastOp, reqs, norm>>

\* db.get_user_topics(user_id) after the calls made so far.
ListAfterCalls(user_id) ==
    /\ lastOp = NoOp
    /\ list_topics_command(user_id)

NextList ==
    \/ \E c \in Callers, n \in {NameA, NameUpperA}, u \in Users :
          AddInTurn(c, n, u)
    \/ \E c \in Callers, n \in {NameA, NameUpperA}, u \in Users :
          DeleteInTurn(c, n, u)
    \/ \E u \in Users : ListAfterCalls(u)
    \/ Tick

SpecList == Init /\ [][NextList]_vars

\* ----------------------------------------------------------- webhook_handler
BELL == 128276      \* the bell emoji that opens notification_text

\* Line 316: the text sent to the backend.
notification_text(topic_name, formatted_message) ==
    <<BELL, SPACE, 42, 42>> \o topic_name \o <<42, 42, NEWLINE, NEWLINE>>
        \o formatted_message

\* Faulty variant of on_request: the body is read and checked before the lookup's
\* result is.
on_request_read_first(rows, topic_name, content_type, db_fault) ==
    LET req == [NoRequest EXCEPT !.topic_name = topic_name,
                                 !.content_type = content_type]
        topic_info == get_topic(rows, topic_name)
    IN  IF db_fault
        THEN [req EXCEPT !.pc = "done", !.fault = "lookup", !.escaped = TRUE]
        ELSE [req EXCEPT !.pc = "read",
                         !.chat_id = IF topic_info = {} THEN 0
                                     ELSE (CHOOSE t \in topic_info : TRUE).chat_id]

\* Lines 246-256: the request arrives and the topic is looked up; the body
\* is not read yet.  db_fault is an sqlite3 error raised by get_topic, which
\* no try block encloses.
on_request(rows, topic_name, content_type, db_fault) ==
    LET req == [NoRequest EXCEPT !.topic_name = topic_name,
                                 !.content_type = content_type]
        topic_info == get_topic(rows, topic_name)
    IN  IF db_fault
        THEN [req EXCEPT !.pc = "done", !.fault = "lookup", !.escaped = TRUE]
        ELSE IF topic_info = {}
        THEN [req EXCEPT !.pc = "done", !.status = 404]
        ELSE [req EXCEPT !.pc = "read",
                         !.chat_id = (CHOOSE t \in topic_info : TRUE).chat_id]

\* Faulty variant of on_body: the topic is looked up again before the send.
on_body_reread(req, raw_body, read_fault) ==
    LET m == extract_message(raw_body, req.content_type)
        got == [req EXCEPT !.raw_body = raw_body]
        failed(at) == [got EXCEPT !.pc = "done", !.fault = at, !.status = 500]
        topic_info == get_topic(topics, req.topic_name)
    IN  IF read_fault
        THEN {[req EXCEPT !.pc = "done", !.fault = "read", !.status = 500]}
        ELSE IF m.fault THEN {failed("normalize")}
        ELSE IF no_message(m.message)
        THEN {[got EXCEPT !.pc = "done", !.status = 400]}
        ELSE IF topic_info = {} THEN {failed("normalize")}
        ELSE {IF f.fault THEN failed("normalize")
              ELSE [got EXCEPT !.pc = "post", !.sends = @ + 1,
                               !.sent_to = (CHOOSE t \in topic_info : TRUE).chat_id,
                               !.text = notification_text(req.topic_name, f.text)] :
                 f \in format_message(m.message)}

\* Lines 258-329: request.read() returns (or raises: read_fault), the message
\* is extracted, checked and formatted, and the backend call is started.
on_body(req, raw_body, read_fault) ==
    LET m == extract_message(raw_body, req.content_type)
        got == [req EXCEPT !.raw_body = raw_body]
        failed(at) == [got EXCEPT !.pc = "done", !.fault = at, !.status = 500]
    IN  IF read_fault
        THEN {[req EXCEPT !.pc = "done", !.fault = "read", !.status = 500]}
        ELSE IF m.fault THEN {failed("normalize")}
        ELSE IF no_message(m.message)
        THEN {[got EXCEPT !.pc = "done", !.status = 400]}
        ELSE {IF f.fault THEN failed("normalize")
              ELSE [got EXCEPT !.pc = "post", !.sends = @ + 1,
                               !.sent_to = req.chat_id,
                               !.text = notification_text(req.topic_name, f.text)] :
                 f \in format_message(m.message)}

\* Faulty variant of response_status: every 2xx answer of the backend counts.
response_status_2xx(resp) == IF resp \in 200..299 THEN 200 ELSE 500

\* Lines 330-334
response_status(resp) == IF resp = 200 THEN 200 ELSE 500

\* Faulty variant of on_response: a send that did not succeed is sent again.
on_response_retry(req, resp, transport_fault) ==
    IF transport_fault \/ resp # 200
    THEN IF req.sends < 2
         THEN [req EXCEPT !.sends = @ + 1, !.resp = resp]
         ELSE [req EXCEPT !.pc = "done", !.resp = resp, !.status = 500]
    ELSE [req EXCEPT !.pc = "done", !.resp = resp, !.status = 200]

\* Lines 329-338: the backend answers with status resp, or the call raises
\* (transport_fault), which the except clause of line 336 catches.
on_response(req, resp, transport_fault) ==
    IF transport_fault
    THEN [req EXCEPT !.pc = "done", !.fault = "dispatch", !.status = 500]
    ELSE [req EXCEPT !.pc = "done", !.resp = resp,
                     !.status = response_status(resp)]

\* Request bodies of SpecGateway: empty, *, {"message":"a"}, {"message":""}
\* and [1].
MessageObject(value) ==
    <<123, QUOTE>> \o KeyMessage \o <<QUOTE, 58>> \o value \o <<125>>

GatewayBodies ==
    {<<>>, <<42>>, MessageObject(<<QUOTE, 97, QUOTE>>),
     MessageObject(<<QUOTE, QUOTE>>), <<91, 49, 93>>}

\* HTTP statuses the backend answers with.
BackendStatuses == {200, 201, 400}

\* The commands as the webhook side meets them: the table changes between
\* two steps of a request; the reply goes to the chat and is not recorded.
register_meanwhile(user_id, chat_id, args) ==
    /\ topics' = register_result(topics, now, user_id, chat_id, args).rows
    /\ UNCHANGED <<now, lastOp, calls, reqs, norm>>

unregister_meanwhile(user_id, args) ==
    /\ topics' = unregister_result(topics, user_id, args).rows
    /\ UNCHANGED <<now, lastOp, calls, reqs, norm>>

webhook_lookup(r, topic_name, content_type, db_fault) ==
    /\ reqs[r].pc = "idle"
    /\ reqs' = [reqs EXCEPT ![r] =
                   on_request(topics, topic_name, content_type, db_fault)]
    /\ UNCHANGED <<topics, now, lastOp, calls, norm>>

webhook_body(r, raw_body, read_fault) ==
    /\ reqs[r].pc = "read"
    /\ \E next \in on_body(reqs[r], raw_body, read_fault) :
          reqs' = [reqs EXCEPT ![r] = next]
    /\ UNCHANGED <<topics, now, lastOp, calls, norm>>

webhook_response(r, resp, transport_fault) ==
    /\ reqs[r].pc = "post"
    /\ reqs' = [reqs EXCEPT ![r] = on_response(reqs[r], resp, transport_fault)]
    /\ UNCHANGED <<topics, now, lastOp, calls, norm>>

NextGateway ==
    \/ \E u \in Users, c \in Chats : register_meanwhile(u, c, <<NameA>>)
    \/ \E u \in Users : unregister_meanwhile(u, <<NameA>>)
    \/ \E r \in Reqs, n \in {NameA, NameUpperA}, ct \in ContentTypes,
          db_fault \in BOOLEAN :
          webhook_lookup(r, n, ct, db_fault)
    \/ \E r \in Reqs, b \in GatewayBodies, read_fault \in BOOLEAN :
          webhook_body(r, b, read_fault)
    \/ \E r \in Reqs, resp \in BackendStatuses, transport_fault \in BOOLEAN :
          webhook_response(r, resp, transport_fault)

SpecGateway == Init /\ [][NextGateway]_vars

\* ------------------------------------------- a backend call that never returns
\* Two more requests next to those of Reqs: Hung is a webhook request whose
\* session.post never returns, Health a GET /health.
Hung == MaxReq + 1
Health == MaxReq + 2

InitLive ==
    /\ topics = init_database
    /\ now = 0
    /\ lastOp = NoOp
    /\ calls = [c \in Callers |-> NoCall]
    /\ reqs = [r \in Reqs \cup {Hung, Health} |-> NoRequest]
    /\ norm = NoNorm

\* GET /health reaches the server.
health_arrives ==
    /\ reqs[Health].pc = "idle"
    /\ reqs' = [reqs EXCEPT ![Health].pc = "arrived"]
    /\ UNCHANGED <<topics, now, lastOp, calls, norm>>

\* Lines 347-348: health_check answers 200 "OK".
health_check ==
    /\ reqs[Health].pc = "arrived"
    /\ reqs' = [reqs EXCEPT ![Health].pc = "done", ![Health].status = 200]
    /\ UNCHANGED <<topics, now, lastOp, calls, norm>>

\* A chat command of user 1 reaches the bot, which handles its updates one
\* after the other: the command waits (reply "pending") for its handler.
command_arrives(cmd) ==
    /\ lastOp.reply # "pending"
    /\ lastOp' = [NoOp EXCEPT !.cmd = cmd, !.user_id = 1, !.chat_id = 1,
                              !.reply = "pending"]
    /\ UNCHANGED <<topics, now, calls, reqs, norm>>

\* Faulty variant of command_handled: the store is held while a backend call
\* is in flight.
command_handled_after_sends ==
    /\ lastOp.reply = "pending"
    /\ \A r \in DOMAIN reqs : reqs[r].pc # "post"
    /\ \/ lastOp.cmd = "register" /\ register_command(1, 1, <<NameA>>)
       \/ lastOp.cmd = "unregister" /\ unregister_command(1, <<NameA>>)
       \/ lastOp.cmd = "list" /\ list_topics_command(1)

\* The handler of the waiting command runs: its database call and its reply.
command_handled ==
    /\ lastOp.reply = "pending"
    /\ \/ lastOp.cmd = "register" /\ register_command(1, 1, <<NameA>>)
       \/ lastOp.cmd = "unregister" /\ unregister_command(1, <<NameA>>)
       \/ lastOp.cmd = "list" /\ list_topics_command(1)

LiveBodies == {<<>>, <<42>>}

body_read(r) == \E b \in LiveBodies : webhook_body(r, b, FALSE)

backend_answers(r) ==
    \E resp \in BackendStatuses, transport_fault \in BOOLEAN :
        webhook_response(r, resp, transport_fault)

NextLive ==
    \/ \E cmd \in {"register", "unregister", "list"} : command_arrives(cmd)
    \/ command_handled
    \/ health_arrives
    \/ health_check
    \/ \E r \in Reqs \cup {Hung} : webhook_lookup(r, NameA, TEXT_TYPE, FALSE)
    \/ \E r \in Reqs \cup {Hung} : body_read(r)
    \/ \E r \in Reqs : backend_answers(r)

\* The event loop runs every handler that is ready; the clients deliver the
\* bodies they announce; the backend answers every call but the one of Hung.
FairLive ==
    /\ WF_vars(command_handled)
    /\ WF_vars(health_check)
    /\ \A r \in Reqs \cup {Hung} : WF_vars(body_read(r))
    /\ \A r \in Reqs : WF_vars(backend_answers(r))

SpecLive == InitLive /\ [][NextLive]_vars /\ FairLive

\* ------------------------------------------------- normalisation on its own
MaxToks == 3      \* a body of SpecNorm is made of at most MaxToks tokens

\* The byte runs bodies are made of: NUL, newline, an invalid byte, e-acute
\* in UTF-8, and the characters JSON and Markdown give a meaning to.
Tokens ==
    {<<0>>, <<10>>, <<255>>, <<195, 169>>, <<QUOTE>>, <<BACKSLASH>>, <<98>>,
     <<42>>, <<UNDERSCORE>>, <<96, 96, 96>>, <<91>>, <<93>>, <<49>>,
     <<123, 125>>}

RECURSIVE TokenBodies(_)
TokenBodies(n) ==
    IF n = 0 THEN {<<>>}
    ELSE LET shorter == TokenBodies(n - 1)
         IN  shorter \cup {b \o t : b \in shorter, t \in Tokens}

\* b between double quotes: a JSON string where b is well formed.
Quoted(b) == <<QUOTE>> \o b \o <<QUOTE>>

NormBodies ==
    TokenBodies(MaxToks) \cup {MessageObject(b) : b \in TokenBodies(MaxToks)}
        \cup {Quoted(b) : b \in TokenBodies(MaxToks - 1)}

InitNorm ==
    /\ topics = init_database
    /\ now = 0
    /\ lastOp = NoOp
    /\ calls = [c \in Callers |-> NoCall]
    /\ reqs = [r \in Reqs |-> NoRequest]
    /\ norm \in {[NoNorm EXCEPT !.pc = "input", !.raw_body = b,
                                !.content_type = ct] :
                    b \in NormBodies, ct \in ContentTypes}

Normalize ==
    /\ norm.pc = "input"
    /\ \E o \in normalize(norm.raw_body, norm.content_type) :
          norm' = [norm EXCEPT !.pc = "done", !.kind = o.kind, !.text = o.text]
    /\ UNCHANGED <<topics, now, lastOp, calls, reqs>>

\* The text between the fences of a formatted_message made at line 307.
IsBlock(text) ==
    /\ Len(text) >= Len(FenceOpen) + Len(FenceClose)
    /\ SubSeq(text, 1, Len(FenceOpen)) = FenceOpen
    /\ SubSeq(text, Len(text) - Len(FenceClose) + 1, Len(text)) = FenceClose

Payload(text) == SubSeq(text, Len(FenceOpen) + 1, Len(text) - Len(FenceClose))

\* Lines 285-314 on a message that is a str.
normalize_message(s) ==
    IF no_message(PyStr(s)) THEN {Outcome("empty", <<>>)}
    ELSE {IF f.fault THEN Outcome("fault", <<>>) ELSE Outcome("text", f.text) :
             f \in format_message(PyStr(s))}

\* A formatted_message that is a code block comes in again as a message:
\* whole ("block"), or only the text between its fences ("payload").
NormalizeAgain ==
    /\ norm.pc = "done"
    /\ norm.kind = "text"
    /\ IsBlock(norm.text)
    /\ \E fed \in {"block", "payload"} :
          \E o \in normalize_message(IF fed = "block" THEN norm.text
                                     ELSE Payload(norm.text)) :
              norm' = [norm EXCEPT !.pc = "again", !.fed = fed,
                                   !.again_kind = o.kind,
                                   !.again_text = o.text]
    /\ UNCHANGED <<topics, now, lastOp, calls, reqs>>

NextNorm == Normalize \/ NormalizeAgain

SpecNorm == InitNorm /\ [][NextNorm]_vars

\* ------------------------------------------------------------------ claims
\* C1: among concurrent add_topic calls of one topic name, in any
\* interleaving, at most one returns true and every other finished call
\* returns false; the table then holds exactly one row of that name, with
\* the owner and destination of the call that returned true.
C1_AtMostOneAddSucceeds ==
    \A n \in {NameA, NameUpperA} :
        LET done == {c \in Callers :
                        calls[c].pc = "done" /\ calls[c].topic_name = n}
            won == {c \in done : calls[c].ret}
        IN  /\ Cardinality(won) <= 1
            /\ done # {} =>
                  /\ Cardinality(won) = 1
                  /\ \A c \in won :
                        \E r \in topics :
                            /\ get_topic(topics, n) = {r}
                            /\ r.user_id = calls[c].user_id
                            /\ r.chat_id = calls[c].chat_id

C1_Witness ==
    \E c, d \in Callers :
        /\ c # d
        /\ calls[c].pc = "done" /\ calls[d].pc = "done"
        /\ calls[c].topic_name = calls[d].topic_name
        /\ calls[c].user_id # calls[d].user_id
        /\ calls[c].chat_id # calls[d].chat_id
        /\ calls[c].ret /\ ~calls[d].ret

\* C2: add_topic returns true exactly when no row of that name (compared
\* code point by code point) is stored under any owner; when it returns
\* false the table is unchanged, so the stored row keeps its owner and
\* destination.
C2_AddTrueIffNameFree ==
    lastOp.called = "add" =>
        /\ lastOp.ok =
              ~(\E r \in lastOp.before : r.topic_name = lastOp.topic_name)
        /\ ~lastOp.ok => topics = lastOp.before
        /\ lastOp.ok =>
              topics = lastOp.before \cup
                  {r \in topics : /\ r.topic_name = lastOp.topic_name
                                  /\ r.user_id = lastOp.user_id
                                  /\ r.chat_id = lastOp.chat_id}

C2_Witness ==
    /\ lastOp.called = "add"
    /\ ~lastOp.ok
    /\ \E r \in topics : /\ r.topic_name = lastOp.topic_name
                         /\ r.user_id # lastOp.user_id
                         /\ r.chat_id # lastOp.chat_id
    /\ \E r \in topics : r.topic_name # lastOp.topic_name

\* C3: delete_topic returns true only if a row with exactly that
\* (user_id, topic_name) is stored; with the right name and another owner it
\* returns false and the row stays as it was, still found by get_topic.
C3_DeleteNeedsOwner ==
    lastOp.called = "delete" =>
        /\ lastOp.ok =>
              \E r \in lastOp.before : /\ r.user_id = lastOp.user_id
                                       /\ r.topic_name = lastOp.topic_name
        /\ \A r \in lastOp.before :
              (r.topic_name = lastOp.topic_name /\ r.user_id # lastOp.user_id)
                  => /\ ~lastOp.ok
                     /\ topics = lastOp.before
                     /\ get_topic(topics, lastOp.topic_name) = {r}

C3_Witness ==
    /\ lastOp.called = "delete"
    /\ ~lastOp.ok
    /\ \E r \in topics : /\ r.topic_name = lastOp.topic_name
                         /\ r.user_id # lastOp.user_id

\* C4: a delete_topic that returns true removes exactly the row of that name
\* and leaves every other row as it was; get_topic of the name then finds
\* nothing, the name can be added by any owner, and the name is stored again
\* only by a later add_topic of it that returns true.
C4_DeleteState ==
    (lastOp.called = "delete" /\ lastOp.ok) =>
        /\ \E r \in lastOp.before :
              /\ r.topic_name = lastOp.topic_name
              /\ topics = lastOp.before \ {r}
        /\ Cardinality(topics) = Cardinality(lastOp.before) - 1
        /\ get_topic(topics, lastOp.topic_name) = {}
        /\ \A u \in Users, c \in Chats :
              add_topic(topics, lastOp.topic_name, u, c, now).ok

C4_AbsentUntilAdd ==
    \A n \in {NameA, NameUpperA} :
        (get_topic(topics, n) = {} /\ get_topic(topics', n) # {})
            => /\ lastOp'.called = "add"
               /\ lastOp'.ok
               /\ lastOp'.topic_name = n

C4_DeleteRemovesOnlyThatTopic == []C4_DeleteState /\ [][C4_AbsentUntilAdd]_vars

C4_Witness ==
    /\ lastOp.called = "delete"
    /\ lastOp.ok
    /\ topics # {}

\* C5: a request whose topic name is not stored when it is looked up is
\* answered 404 whatever its content type, before its body is read (so
\* whatever the body is, an empty one too: never 400), and the backend is
\* never called for it.
C5_LookupStep ==
    \A r \in Reqs :
        (/\ reqs[r].pc = "idle"
         /\ reqs'[r].pc # "idle"
         /\ reqs'[r].fault # "lookup"
         /\ ~(\E t \in topics : t.topic_name = reqs'[r].topic_name))
            => (reqs'[r].pc = "done" /\ reqs'[r].status = 404)

C5_NotFoundState ==
    \A r \in Reqs :
        (reqs[r].status = 404 \/ (reqs[r].pc # "idle" /\ reqs[r].chat_id = 0)) =>
            /\ reqs[r].pc = "done"
            /\ reqs[r].status \in {0, 404}
            /\ reqs[r].sends = 0
            /\ reqs[r].text = <<>>

C5_UnregisteredIs404 == []C5_NotFoundState /\ [][C5_LookupStep]_vars

C5_Witness ==
    \E r \in Reqs :
        /\ reqs[r].status = 404
        /\ reqs[r].content_type = JSON_TYPE
        /\ reqs[r].topic_name = NameUpperA
        /\ \E t \in topics : t.topic_name = NameA

\* C6: when the message extracted from the body of a request to a
\* registered topic is empty (falsy), the request is answered 400 and the
\* backend is not called.
C6_EmptyIs400 ==
    \A r \in Reqs :
        LET m == extract_message(reqs[r].raw_body, reqs[r].content_type)
        IN  (/\ reqs[r].pc \in {"post", "done"}
             /\ reqs[r].chat_id # 0
             /\ reqs[r].fault # "read"
             /\ ~m.fault
             /\ ~Truthy(m.message))
                => (/\ reqs[r].pc = "done"
                    /\ reqs[r].status = 400
                    /\ reqs[r].sends = 0)

C6_Witness ==
    \E r \in Reqs :
        /\ reqs[r].status = 400
        /\ reqs[r].raw_body # <<>>
        /\ reqs[r].chat_id # 0

\* C7 as claimed: once the backend was called, the answer is 200 for every
\* 2xx status of the backend and 500 for any other status or a transport
\* failure.
C7_Every2xxIs200 ==
    \A r \in Reqs :
        (reqs[r].pc = "done" /\ reqs[r].sends > 0) =>
            IF reqs[r].fault = "none" /\ reqs[r].resp \in 200..299
            THEN reqs[r].status = 200
            ELSE reqs[r].status = 500

\* C7 as amended: once the backend was called, the answer is 200 exactly when
\* the backend answered with status 200, and 500 for any other status (other
\* 2xx statuses too) or a transport failure.
C7_Only200Is200 ==
    \A r \in Reqs :
        (reqs[r].pc = "done" /\ reqs[r].sends > 0) =>
            IF reqs[r].fault = "none" /\ reqs[r].resp = 200
            THEN reqs[r].status = 200
            ELSE reqs[r].status = 500

C7_Witness ==
    \E r \in Reqs :
        /\ reqs[r].pc = "done"
        /\ reqs[r].sends > 0
        /\ reqs[r].resp = 201
        /\ reqs[r].status = 500

\* C8 as claimed: a fault raised at any step of the handler (lookup, body
\* read, normalisation, dispatch) is caught inside it and answered 500.
C8_EveryFaultCaught ==
    \A r \in Reqs :
        reqs[r].fault # "none" =>
            (~reqs[r].escaped /\ reqs[r].status = 500)

\* C9: a request calls the backend at most once; whatever the backend
\* answers, the request is then complete with its response, and a complete
\* request does nothing more.
C9_SendState ==
    \A r \in Reqs :
        /\ reqs[r].sends <= 1
        /\ reqs[r].pc = "post" => (reqs[r].sends = 1 /\ reqs[r].status = 0)
        /\ (reqs[r].resp # 0 \/ reqs[r].fault = "dispatch") =>
              (reqs[r].pc = "done" /\ reqs[r].status \in {200, 500})

C9_DoneStep ==
    \A r \in Reqs :
        /\ reqs[r].pc = "done" => reqs'[r] = reqs[r]
        /\ (reqs[r].pc = "post" /\ reqs'[r] # reqs[r]) => reqs'[r].pc = "done"

C9_AtMostOneSend == []C9_SendState /\ [][C9_DoneStep]_vars

C9_Witness ==
    \E r \in Reqs :
        /\ reqs[r].pc = "done"
        /\ reqs[r].sends = 1
        /\ reqs[r].resp = 400
        /\ reqs[r].status = 500

\* C10 as claimed: for every body and content type, lines 265-314 raise
\* nothing and the formatted message holds no character below 32 other than
\* tab, newline and carriage return.
NoControlChars(text) ==
    \A i \in 1..Len(text) : text[i] >= 32 \/ text[i] \in {9, 10, 13}

C10_NeverRaisesNoControl ==
    norm.pc = "done" =>
        (norm.kind # "fault" /\ NoControlChars(norm.text))

\* C11 as claimed: only the empty body is reported as empty; a body that is
\* not empty, under either content type, is never reported as empty (answered
\* 400) and never formatted to the empty string.
C11_NonEmptyBodyNonEmptyText ==
    (norm.pc = "done" /\ norm.raw_body # <<>>) =>
        (/\ norm.kind # "empty"
         /\ norm.kind = "text" => norm.text # <<>>)

\* C12 as claimed: under application/json, whenever the body decodes, whatever
\* the decoded value is, a candidate message is taken from it (line 273
\* raises nothing) and the later steps run without a fault.
C12_DecodedBodyNeverFaults ==
    (/\ norm.pc = "done"
     /\ norm.content_type = JSON_TYPE
     /\ json_loads(clean_raw_body(norm.raw_body)).ok)
        => (/\ ~extract_message(norm.raw_body, norm.content_type).fault
            /\ norm.kind # "fault")

\* C13: a body that does not decode under application/json raises nothing and
\* is normalised exactly as the same body is under a content type that is not
\* application/json.
C13_UndecodableJsonAsText ==
    (/\ norm.pc = "done"
     /\ norm.content_type = JSON_TYPE
     /\ ~json_loads(clean_raw_body(norm.raw_body)).ok)
        => (/\ norm.kind # "fault"
            /\ Outcome(norm.kind, norm.text)
                   \in normalize(norm.raw_body, TEXT_TYPE)
            /\ normalize(norm.raw_body, JSON_TYPE)
                   = normalize(norm.raw_body, TEXT_TYPE))

C13_Witness ==
    /\ norm.pc = "done"
    /\ norm.content_type = JSON_TYPE
    /\ norm.raw_body = <<42, 255>>
    /\ norm.kind = "text"
    /\ norm.text = <<BACKSLASH, 42, REPLACEMENT>>

\* C14: when the message is a string that json.loads rejects, the formatted
\* message is the message without its characters below 32 other than tab,
\* newline and carriage return, with exactly one backslash put before each
\* underscore, asterisk, square bracket and backtick: every such character of
\* the result has a backslash right before it, and taking those backslashes
\* away gives the cleaned message back.
IsMarkup(c) == c \in {UNDERSCORE, 42, 91, 93, 96}

RECURSIVE Unescaped(_)
Unescaped(text) ==
    IF Len(text) = 0 THEN <<>>
    ELSE IF Len(text) >= 2 /\ text[1] = BACKSLASH /\ IsMarkup(text[2])
    THEN <<text[2]>> \o Unescaped(SubSeq(text, 3, Len(text)))
    ELSE <<text[1]>> \o Unescaped(Tail(text))

C14_FreeTextCleanedAndEscaped ==
    LET m == extract_message(norm.raw_body, norm.content_type)
        kept == SelectSeq(m.message.s,
                          LAMBDA c : c >= 32 \/ c \in {9, 10, 13})
    IN  (/\ norm.pc = "done"
         /\ ~m.fault
         /\ m.message.t = "str"
         /\ Len(m.message.s) > 0
         /\ ~json_loads(m.message.s).ok)
            => (/\ norm.kind = "text"
                /\ \A i \in 1..Len(norm.text) :
                      IsMarkup(norm.text[i]) =>
                          (i > 1 /\ norm.text[i - 1] = BACKSLASH)
                /\ Unescaped(norm.text) = kept
                /\ Len(norm.text)
                       = Len(kept) + Len(SelectSeq(kept, IsMarkup)))

C14_Witness ==
    /\ norm.pc = "done"
    /\ norm.content_type = TEXT_TYPE
    /\ norm.raw_body = <<0, 42, 98>>
    /\ norm.text = <<BACKSLASH, 42, 98>>

\* C15 as claimed: whenever the message is a string that json.loads accepts,
\* under either content type, the formatted message is json.dumps(indent=2) of
\* the parsed value between the opening and the closing fence, and that
\* enclosed text holds no run of three backticks.
HasFence(text) ==
    \E i \in 1..(Len(text) - 2) : SubSeq(text, i, i + 2) = Fence

C15_BlockHoldsNoFence ==
    LET m == extract_message(norm.raw_body, norm.content_type)
        r == json_loads(m.message.s)
    IN  (/\ norm.pc = "done"
         /\ ~m.fault
         /\ m.message.t = "str"
         /\ Len(m.message.s) > 0
         /\ r.ok)
            => (/\ norm.kind = "text"
                /\ norm.text = FenceOpen \o json_dumps(r.val) \o FenceClose
                /\ ~HasFence(json_dumps(r.val)))

\* C16 as claimed: a formatted message that is a code block, normalised
\* again, still holds the text that stood between its fences, unchanged.
HasSub(text, sub) ==
    \E i \in 0..(Len(text) - Len(sub)) :
        SubSeq(text, i + 1, i + Len(sub)) = sub

C16_BlockAgainKeepsPayload ==
    (norm.pc = "again" /\ norm.fed = "block") =>
        (/\ norm.again_kind = "text"
         /\ HasSub(norm.again_text, Payload(norm.text)))

\* C16 as amended: the text between the fences of a code block, normalised
\* again as a message of its own, gives the same code block back; the
\* block taken whole is no JSON and comes out as escaped text, not as a block.
C16_PayloadAgainSameBlock ==
    /\ (norm.pc = "again" /\ norm.fed = "payload") =>
          (/\ norm.again_kind = "text"
           /\ norm.again_text = norm.text
           /\ Payload(norm.again_text) = Payload(norm.text))
    /\ (norm.pc = "again" /\ norm.fed = "block") =>
          (/\ norm.again_kind = "text"
           /\ ~IsBlock(norm.again_text)
           /\ norm.again_text = escape_markdown(norm.text))

C16_Witness ==
    /\ norm.pc = "again"
    /\ norm.fed = "payload"
    /\ norm.raw_body = <<91, 49, 93>>
    /\ norm.again_text
           = FenceOpen \o <<91, NEWLINE, SPACE, SPACE, 49, NEWLINE, 93>>
                 \o FenceClose

\* C17 as claimed: after any sequence of add_topic and delete_topic calls,
\* get_user_topics(user_id) holds exactly the rows stored with that user_id,
\* each once, and a row added later always comes before a row of the same
\* user added earlier.
AddedAt(row) ==
    CHOOSE c \in Callers :
        /\ calls[c].pc = "done" /\ calls[c].op = "add" /\ calls[c].ret
        /\ calls[c].topic_name = row.topic_name
        /\ \A d \in Callers :
              (/\ calls[d].pc = "done" /\ calls[d].op = "add" /\ calls[d].ret
               /\ calls[d].topic_name = row.topic_name) => d <= c

ListsOwnRowsOnce(listing, rows, user_id) ==
    /\ {listing[i] : i \in 1..Len(listing)}
           = {r \in rows : r.user_id = user_id}
    /\ \A i, j \in 1..Len(listing) : listing[i] = listing[j] => i = j

C17_ListNewestAddedFirst ==
    lastOp.called = "list" =>
        (/\ ListsOwnRowsOnce(lastOp.listing, topics, lastOp.user_id)
         /\ \A i, j \in 1..Len(lastOp.listing) :
               i < j => AddedAt(lastOp.listing[i]) > AddedAt(lastOp.listing[j]))

\* C18: whatever register and unregister commands run between the steps of
\* a request, the chat_id a request sends to is the one the row of its topic
\* held when the request looked the topic up: the lookup takes it from the
\* table, nothing changes it afterwards, and the send uses it.
C18_LookupStep ==
    \A r \in Reqs :
        (reqs[r].pc = "idle" /\ reqs'[r].pc = "read") =>
            \E t \in topics :
                /\ t.topic_name = reqs'[r].topic_name
                /\ t.chat_id = reqs'[r].chat_id

C18_KeptStep ==
    \A r \in Reqs :
        /\ reqs[r].pc # "idle" => reqs'[r].chat_id = reqs[r].chat_id
        /\ (reqs[r].pc = "read" /\ reqs'[r].pc = "post") =>
              reqs'[r].sent_to = reqs[r].chat_id

C18_SentState ==
    \A r \in Reqs :
        reqs[r].sends > 0 =>
            (reqs[r].chat_id \in Chats /\ reqs[r].sent_to = reqs[r].chat_id)

C18_SendsToLookedUpChat ==
    []C18_SentState /\ [][C18_LookupStep /\ C18_KeptStep]_vars

C18_Witness ==
    \E r \in Reqs :
        /\ reqs[r].pc = "post"
        /\ reqs[r].sent_to = 1
        /\ \E t \in topics :
              /\ t.topic_name = reqs[r].topic_name
              /\ t.user_id = 2
              /\ t.chat_id = 2

\* C19: while the backend call of one request never returns, no database
\* call waits for it (a waiting command's handler can run), and every other
\* webhook request under way, a health request that has arrived and a chat
\* command that has arrived are each answered in the end.
C19_StoreNotHeld ==
    (reqs[Hung].pc = "post" /\ lastOp.reply = "pending") =>
        ENABLED command_handled

C19_HungBlocksOnlyItself ==
    /\ []C19_StoreNotHeld
    /\ \A r \in Reqs :
          (reqs[Hung].pc = "post" /\ reqs[r].pc \in {"read", "post"})
              ~> (reqs[r].pc = "done" /\ reqs[r].status # 0)
    /\ (reqs[Hung].pc = "post" /\ reqs[Health].pc = "arrived")
          ~> (reqs[Health].pc = "done" /\ reqs[Health].status = 200)
    /\ (reqs[Hung].pc = "post" /\ lastOp.reply = "pending")
          ~> (lastOp.reply \notin {"pending", "none"})

C19_Witness ==
    /\ reqs[Hung].pc = "post"
    /\ reqs[Health].pc = "done"
    /\ lastOp.cmd = "unregister"
    /\ lastOp.reply = "unregistered"
    /\ \E r \in Reqs :
          reqs[r].pc = "done" /\ reqs[r].sends = 1 /\ reqs[r].status = 200

\* C20: after any sequence of commands every stored topic name is not empty,
\* is made of letters, digits, hyphens and underscores only and holds a letter
\* or digit; a /register whose name is not of that form does not call
\* add_topic and leaves the table as it was.
WellFormedName(topic_name) ==
    /\ Len(topic_name) > 0
    /\ \A i \in 1..Len(topic_name) :
          \/ IsAlnumChar(topic_name[i])
          \/ topic_name[i] = HYPHEN
          \/ topic_name[i] = UNDERSCORE
    /\ \E i \in 1..Len(topic_name) : IsAlnumChar(topic_name[i])

C20_StoredNamesWellFormed ==
    /\ \A t \in topics : WellFormedName(t.topic_name)
    /\ (lastOp.cmd = "register" /\ ~WellFormedName(lastOp.topic_name)) =>
          (/\ lastOp.called = "none"
           /\ lastOp.reply \in {"usage", "invalid"}
           /\ topics = lastOp.before)

C20_Witness ==
    /\ lastOp.cmd = "register"
    /\ lastOp.topic_name = <<97, SPACE, 97>>
    /\ lastOp.reply = "invalid"
    /\ lastOp.called = "none"
    /\ topics # {}

====
